---- MODULE Spec2Model ----
(***************************************************************************)
(* rs1090 / jet1090: the Mode S CRC engine (src/decode/crc.rs) and the     *)
(* state-vector aggregator with its writer loop and renderer thread        *)
(* (crates/decode1090/src/jet.rs).                                         *)
(***************************************************************************)
EXTENDS Integers, Sequences, FiniteSets, TLC

VARIABLES
    \* ---- jet.rs: main, update_snapshot, build_table ----
    feed,       \* the timed frames the ingress collaborator may deliver
    chan,       \* rx: frames buffered in the ingress channel
    closed,     \* the ingress sender has been dropped
    sent,       \* number of frames delivered so far
    file,       \* options.output: "none" | "open"
    pcw,        \* position of the writer loop of main
    msg,        \* the TimedMessage the writer is working on
    aircraft,   \* CPR scratch per ICAO (owned by the writer)
    reference,  \* reference position
    states,     \* the shared map: address string -> Snapshot (StateVectors.cur)
    mutex,      \* owner of the Mutex around states
    json,       \* last JSON line produced by the writer
    pcr,        \* position of the renderer thread
    rows,       \* rows collected by build_table
    committed,  \* history: states as of the last completed update_snapshot
    seen,       \* history: keys of the messages update_snapshot has handled
    log,        \* history: the timed frames in the order ingress delivered them
    \* ---- crc.rs: modes_checksum ----
    cMessage,   \* message: &[u8]
    cBits,      \* bits: usize
    cFlip,      \* which bit of the frame was flipped (0: none)
    cResult,    \* Result<u32, DekuError> of the call, or NoResult
    cOverlay,   \* the address XORed into the parity field, if any
    cPlain      \* the result for the frame before the address was overlaid

pipeVars == <<feed, chan, closed, sent, file, pcw, msg, aircraft,
              reference, states, mutex, json, pcr, rows, committed, seen, log>>
crcVars == <<cMessage, cBits, cFlip, cResult, cOverlay, cPlain>>
vars == <<feed, chan, closed, sent, file, pcw, msg, aircraft,
          reference, states, mutex, json, pcr, rows, committed, seen, log,
          cMessage, cBits, cFlip, cResult, cOverlay, cPlain>>

(***************************************************************************)
(* Option<T>: None is the empty sequence, Some(v) the one-element one.     *)
(***************************************************************************)
None == <<>>
Some(v) == <<v>>
IsSome(o) == o # <<>>
Unwrap(o) == o[1]

(***************************************************************************)
(* u32 arithmetic.  A u32 is the pair <<high 16 bits, low 16 bits>>, so    *)
(* that no intermediate value leaves the range of the checker's integers.  *)
(***************************************************************************)
RECURSIVE Xor(_, _)
Xor(a, b) ==
    IF a = 0 THEN b
    ELSE IF b = 0 THEN a
    ELSE 2 * Xor(a \div 2, b \div 2) + (((a % 2) + (b % 2)) % 2)

\* u32::from of a value below 2^31
U32From(n) == <<n \div 65536, n % 65536>>
\* the value of a u32 below 2^31
U32Val(w) == w[1] * 65536 + w[2]
XorW(a, b) == <<Xor(a[1], b[1]), Xor(a[2], b[2])>>
\* a << k for 0 <= k <= 16: the bits shifted past bit 31 are lost
ShlW(a, k) ==
    <<(a[1] % (2 ^ (16 - k))) * (2 ^ k) + (a[2] \div (2 ^ (16 - k))),
      (a[2] % (2 ^ (16 - k))) * (2 ^ k)>>
\* (a & 0x00ff_0000) >> 16
Byte2(a) == <<0, a[1] % 256>>
\* a & 0x00ff_ffff
Low24(a) == <<a[1] % 256, a[2]>>

(***************************************************************************)
(* crc.rs                                                                  *)
(***************************************************************************)
\* the Mode S generator polynomial 0x1FFF409 (x^24 + ... + 1)
Generator == 33551369

\* one step of the division by the polynomial gen on a 24-bit register:
\* shift left, and subtract gen when a bit leaves the register
ReduceStep(c, gen) ==
    IF 2 * c >= 16777216 THEN Xor(2 * c, gen) % 16777216 ELSE 2 * c
RECURSIVE Reduce(_, _, _)
Reduce(c, steps, gen) ==
    IF steps = 0 THEN c ELSE Reduce(ReduceStep(c, gen), steps - 1, gen)
\* b << 16 reduced by gen (the eight bits of b divided out), 24 bits wide
TableEntry(b, gen) == Reduce(b * 65536, 8, gen) % 16777216

\* variant: the table with its last entry left at zero
CRC_TABLE_last_zero ==
    [i \in 1..256 |-> IF i = 256 THEN 0 ELSE TableEntry(i - 1, Generator)]

CRC_TABLE == <<
    0, 16774153, 7195, 16771090, 14390, 16763967, 9261, 16764964,
    28780, 16745573, 27767, 16750718, 18522, 16759891, 21569, 16752712,
    57560, 16717009, 64707, 16713930, 55534, 16723175, 50421, 16724220,
    37044, 16737469, 36015, 16742566, 43138, 16735371, 46233, 16728208,
    115120, 16659897, 122283, 16656802, 129414, 16649615, 124317, 16650644,
    111068, 16664021, 110023, 16669134, 100842, 16678371, 103921, 16671224,
    74088, 16700769, 81267, 16697722, 72030, 16706903, 66885, 16707916,
    86276, 16688397, 85279, 16693526, 92466, 16686395, 95529, 16679200,
    230240, 16545641, 237435, 16542578, 244566, 16535391, 239437, 16536388,
    258828, 16516869, 257815, 16522014, 248634, 16531251, 251681, 16524072,
    222136, 16553905, 229283, 16550826, 220046, 16560007, 214933, 16561052,
    201684, 16574429, 200655, 16579526, 207842, 16572395, 210937, 16565232,
    148176, 16627417, 155339, 16624322, 162534, 16617199, 157437, 16618228,
    144060, 16631477, 143015, 16636590, 133770, 16645763, 136849, 16638616,
    172552, 16602625, 179731, 16599578, 170558, 16608823, 165413, 16609836,
    184932, 16590445, 183935, 16595574, 191058, 16588379, 194121, 16581184,
    460480, 16315081, 465627, 16314066, 474870, 16304895, 467693, 16307940,
    489132, 16286373, 486071, 16293566, 478874, 16300691, 479873, 16295560,
    517656, 16257553, 522755, 16256522, 515630, 16263719, 508469, 16266812,
    497268, 16278141, 494191, 16285286, 503362, 16276043, 504409, 16270928,
    444272, 16331641, 449387, 16330594, 458566, 16321359, 451421, 16324436,
    440092, 16335637, 436999, 16342798, 429866, 16349987, 430897, 16344888,
    403368, 16372641, 408499, 16371642, 401310, 16378775, 394117, 16381836,
    415684, 16360397, 412639, 16367574, 421874, 16358395, 422889, 16353248,
    296352, 16478633, 301499, 16477618, 310678, 16468383, 303501, 16471428,
    325068, 16449989, 322007, 16457182, 314874, 16464371, 315873, 16459240,
    288120, 16486769, 293219, 16485738, 286030, 16492871, 278869, 16495964,
    267540, 16507165, 264463, 16514310, 273698, 16505131, 274745, 16500016,
    345104, 16429081, 350219, 16428034, 359462, 16418863, 352317, 16421940,
    341116, 16433269, 338023, 16440430, 330826, 16447555, 331857, 16442456,
    369864, 16404673, 374995, 16403674, 367870, 16410871, 360677, 16413932,
    382116, 16392365, 379071, 16399542, 388242, 16390299, 389257, 16385152
>>

\* message[i] of a slice: an index past the end panics
Index(message, i) == IF i < Len(message) THEN Some(message[i + 1]) ELSE None

\* variant: the table is indexed by the message byte alone
RECURSIVE ChecksumLoop_no_feedback(_, _, _, _)
ChecksumLoop_no_feedback(message, rem, i, to) ==
    IF i >= to THEN rem
    ELSE ChecksumLoop_no_feedback(message,
                      Low24(XorW(ShlW(rem, 8),
                                 U32From(CRC_TABLE[message[i + 1] + 1]))),
                      i + 1, to)

\* the for loop of modes_checksum, iterations i..(to - 1)
RECURSIVE ChecksumLoop(_, _, _, _)
ChecksumLoop(message, rem, i, to) ==
    IF i >= to THEN rem
    ELSE ChecksumLoop(message,
                      Low24(XorW(ShlW(rem, 8),
                                 U32From(CRC_TABLE[
                                     U32Val(XorW(U32From(message[i + 1]),
                                                 Byte2(rem))) + 1]))),
                      i + 1, to)

Ok(v) == [tag |-> "Ok", val |-> v]
Err(e) == [tag |-> "Err", val |-> e]
Panic == [tag |-> "Panic", val |-> 0]
NoResult == [tag |-> "NoResult", val |-> 0]
\* DekuError::Incomplete(NeedSize::new(4))
Incomplete == [tag |-> "Err", val |-> 4]

\* variant: the slice length is compared with n - 1
modes_checksum_short_guard(message, bits) ==
    LET n == bits \div 8 IN
    IF (n < 3) \/ (Len(message) < n - 1) THEN Incomplete
    ELSE IF \E i \in 0..(n - 1) : Index(message, i) = None THEN Panic
    ELSE LET rem == ChecksumLoop(message, <<0, 0>>, 0, n - 3)
             msg_1 == ShlW(U32From(message[n - 2]), 16)
             msg_2 == ShlW(U32From(message[n - 1]), 8)
             msg_3 == U32From(message[n])
             xor_term == XorW(XorW(msg_1, msg_2), msg_3)
         IN Ok(U32Val(XorW(rem, xor_term)))

\* variant: the loop also runs over the first parity byte (0..=(n - 3))
modes_checksum_long_loop(message, bits) ==
    LET n == bits \div 8 IN
    IF (n < 3) \/ (Len(message) < n) THEN Incomplete
    ELSE IF \E i \in 0..(n - 1) : Index(message, i) = None THEN Panic
    ELSE LET rem == ChecksumLoop(message, <<0, 0>>, 0, n - 2)
             msg_1 == ShlW(U32From(message[n - 2]), 16)
             msg_2 == ShlW(U32From(message[n - 1]), 8)
             msg_3 == U32From(message[n])
             xor_term == XorW(XorW(msg_1, msg_2), msg_3)
         IN Ok(U32Val(XorW(rem, xor_term)))

\* variant: the middle parity byte enters the xor term unshifted
modes_checksum_mid_unshifted(message, bits) ==
    LET n == bits \div 8 IN
    IF (n < 3) \/ (Len(message) < n) THEN Incomplete
    ELSE IF \E i \in 0..(n - 1) : Index(message, i) = None THEN Panic
    ELSE LET rem == ChecksumLoop(message, <<0, 0>>, 0, n - 3)
             msg_1 == ShlW(U32From(message[n - 2]), 16)
             msg_2 == U32From(message[n - 1])
             msg_3 == U32From(message[n])
             xor_term == XorW(XorW(msg_1, msg_2), msg_3)
         IN Ok(U32Val(XorW(rem, xor_term)))

\* variant: the last byte enters the xor term shifted right by one
modes_checksum_last_shifted(message, bits) ==
    LET n == bits \div 8 IN
    IF (n < 3) \/ (Len(message) < n) THEN Incomplete
    ELSE IF \E i \in 0..(n - 1) : Index(message, i) = None THEN Panic
    ELSE LET rem == ChecksumLoop(message, <<0, 0>>, 0, n - 3)
             msg_1 == ShlW(U32From(message[n - 2]), 16)
             msg_2 == ShlW(U32From(message[n - 1]), 8)
             msg_3 == U32From(2 * (message[n] \div 2))
             xor_term == XorW(XorW(msg_1, msg_2), msg_3)
         IN Ok(U32Val(XorW(rem, xor_term)))

modes_checksum(message, bits) ==
    LET n == bits \div 8 IN
    IF (n < 3) \/ (Len(message) < n) THEN Incomplete
    ELSE IF \E i \in 0..(n - 1) : Index(message, i) = None THEN Panic
    ELSE LET rem == ChecksumLoop(message, <<0, 0>>, 0, n - 3)
             msg_1 == ShlW(U32From(message[n - 2]), 16)
             msg_2 == ShlW(U32From(message[n - 1]), 8)
             msg_3 == U32From(message[n])
             xor_term == XorW(XorW(msg_1, msg_2), msg_3)
         IN Ok(U32Val(XorW(rem, xor_term)))

\* hex!("..."): pairs of hex digits to bytes
FromHex(digits) ==
    [i \in 1..(Len(digits) \div 2) |-> 16 * digits[2 * i - 1] + digits[2 * i]]

\* the frames of test_crc with the checksum each assertion expects
Fixtures == <<
    [hex |-> <<8, 13, 4, 0, 6, 11, 9, 0, 2, 0, 1, 5, 10, 6, 7, 8, 13, 4, 13, 2, 2, 0, 10, 10, 4, 11, 13, 10>>,
     crc |-> 0],
    [hex |-> <<8, 13, 8, 9, 6, 0, 14, 13, 5, 8, 11, 15, 0, 5, 3, 12, 15, 1, 1, 11, 12, 5, 9, 3, 2, 11, 7, 13>>,
     crc |-> 0],
    [hex |-> <<8, 13, 4, 5, 12, 10, 11, 3, 9, 0, 12, 3, 9, 5, 0, 9, 4, 9, 6, 12, 10, 9, 10, 3, 2, 9, 1, 2>>,
     crc |-> 0],
    [hex |-> <<8, 13, 4, 9, 13, 3, 13, 4, 14, 1, 0, 8, 9, 13, 0, 0, 0, 0, 0, 0, 0, 0, 7, 4, 4, 12, 3, 11>>,
     crc |-> 0],
    [hex |-> <<8, 13, 7, 4, 8, 0, 2, 9, 5, 8, 12, 9, 0, 4, 14, 6, 14, 15, 4, 11, 10, 0, 1, 8, 4, 13, 5, 12>>,
     crc |-> 0],
    [hex |-> <<8, 13, 4, 4, 0, 0, 12, 13, 9, 11, 0, 0, 0, 0, 11, 4, 15, 8, 7, 0, 0, 0, 14, 7, 1, 10, 1, 0>>,
     crc |-> 0],
    [hex |-> <<8, 13, 4, 0, 6, 5, 13, 14, 5, 8, 10, 1, 0, 5, 4, 10, 7, 14, 15, 0, 2, 1, 8, 14, 2, 2, 6, 10>>,
     crc |-> 0],
    [hex |-> <<12, 8, 0, 11, 2, 13, 12, 10, 3, 4, 10, 10, 2, 1, 13, 13, 8, 2, 1, 10, 0, 4, 12, 11, 6, 4, 13, 4>>,
     crc |-> 10719924],
    [hex |-> <<10, 8, 0, 0, 0, 8, 9, 13, 8, 0, 9, 4, 14, 3, 3, 10, 6, 0, 0, 4, 14, 4, 11, 8, 10, 5, 2, 2>>,
     crc |-> 4805588],
    [hex |-> <<10, 8, 0, 0, 0, 6, 1, 4, 10, 5, 0, 11, 6, 13, 3, 2, 11, 14, 13, 0, 0, 0, 11, 11, 14, 0, 14, 13>>,
     crc |-> 5659991],
    [hex |-> <<10, 0, 0, 0, 0, 4, 1, 0, 11, 12, 9, 0, 0, 0, 1, 0, 10, 4, 0, 0, 0, 0, 15, 5, 15, 4, 7, 7>>,
     crc |-> 11727682],
    [hex |-> <<8, 13, 4, 12, 10, 2, 5, 1, 2, 0, 4, 9, 9, 4, 11, 1, 12, 3, 6, 14, 6, 0, 10, 5, 3, 4, 3, 13>>,
     crc |-> 16],
    [hex |-> <<11, 0, 0, 0, 1, 7, 1, 8, 12, 6, 5, 6, 3, 2, 11, 0, 10, 8, 2, 0, 4, 0, 7, 1, 5, 11, 6, 5>>,
     crc |-> 353333]
>>

(***************************************************************************)
(* Bounds                                                                  *)
(***************************************************************************)
MaxFrames == 2      \* frames the ingress delivers in one run
MaxChan == 1        \* capacity of the ingress channel
MaxTs == 2          \* largest frame timestamp, in half seconds
MaxCrcLen == 4      \* longest arbitrary byte slice given to modes_checksum
MaxCrcBits == 40    \* largest bit length given to modes_checksum

(***************************************************************************)
(* Messages (rs1090::prelude::Message as far as jet.rs reads it)           *)
(***************************************************************************)
Icaos == {4221840, 5022289}     \* 0x406b90, 0x4ca251
IcaoA == CHOOSE i \in Icaos : \A j \in Icaos : i <= j
IcaoB == CHOOSE i \in Icaos : \A j \in Icaos : i >= j

HexDigits == <<"0", "1", "2", "3", "4", "5", "6", "7",
               "8", "9", "a", "b", "c", "d", "e", "f">>

RECURSIVE Hex(_, _)
Hex(n, width) ==
    IF width = 0 THEN ""
    ELSE Hex(n \div 16, width - 1) \o HexDigits[(n % 16) + 1]

\* ICAO::to_string: six lowercase hex digits
IcaoToString(icao) == Hex(icao, 6)

NoBds == [bds50 |-> None, bds60 |-> None]
NoME == [bds |-> "None", odd |-> 0, cpr_lat |-> 0, cpr_lon |-> 0,
         latitude |-> None, longitude |-> None, alt |-> None,
         track |-> None, groundspeed |-> None, callsign |-> "",
         vertical_rate |-> None, subtype |-> 0, ias |-> None, mach |-> None]

BDS50(v) == [roll_angle |-> Some(v), track_angle |-> Some(v + 1),
             groundspeed |-> Some(v + 2)]
BDS60(v) == [indicated_airspeed |-> Some(v + 3), mach_number |-> Some(v + 4)]

\* DF 0, 4, 5, 11, 16: address, altitude code, identity code
Reply(df, addr, v) ==
    [df |-> df, addr |-> addr, aa |-> 0, ac |-> v, id |-> v,
     me |-> NoME, bds |-> NoBds]
\* DF 17
ADSB(icao24, me) ==
    [df |-> "ExtendedSquitterADSB", addr |-> icao24, aa |-> 0, ac |-> 0,
     id |-> 0, me |-> me, bds |-> NoBds]
\* DF 18: pi is the parity field, cf.aa the announced address
TisB(pi, aa, me) ==
    [df |-> "ExtendedSquitterTisB", addr |-> pi, aa |-> aa, ac |-> 0,
     id |-> 0, me |-> me, bds |-> NoBds]
\* DF 20, 21
CommB(df, ap, v, bds50, bds60) ==
    [df |-> df, addr |-> ap, aa |-> 0, ac |-> v, id |-> v, me |-> NoME,
     bds |-> [bds50 |-> bds50, bds60 |-> bds60]]
\* any other downlink format
Unhandled == Reply("Other", 0, 0)

BDS05(odd, v) ==
    [NoME EXCEPT !.bds = "BDS05", !.odd = odd, !.cpr_lat = v,
                 !.cpr_lon = 10 * v, !.alt = Some(100 * v)]
BDS06(odd, v) ==
    [NoME EXCEPT !.bds = "BDS06", !.odd = odd, !.cpr_lat = v,
                 !.cpr_lon = 10 * v, !.track = Some(v), !.groundspeed = Some(v + 1)]
BDS08(cs) == [NoME EXCEPT !.bds = "BDS08", !.callsign = cs]
\* airborne velocity, subtype 1: velocity over ground
BDS09(v) ==
    [NoME EXCEPT !.bds = "BDS09", !.vertical_rate = Some(v), !.subtype = 1,
                 !.groundspeed = Some(v + 1), !.track = Some(v + 2)]
\* airborne velocity, subtype 3: airspeed and heading
BDS09Air(v) ==
    [NoME EXCEPT !.bds = "BDS09", !.vertical_rate = Some(v), !.subtype = 3,
                 !.ias = Some(v + 3)]
OtherME == [NoME EXCEPT !.bds = "Other"]

(***************************************************************************)
(* Ingress frames.  A frame is the hex text of a timed message; what the   *)
(* hex decoder and the frame parser make of it is part of the frame.       *)
(***************************************************************************)
Frame(m) == [kind |-> "ok", message |-> m]
NonHexFrame == [kind |-> "nonhex", message |-> Unhandled]
RejectedFrame == [kind |-> "reject", message |-> Unhandled]

\* hex::decode(&tmsg.frame)
hex_decode(frame) == IF frame.kind = "nonhex" THEN Err(0) ELSE Ok(frame)
\* Message::from_bytes((&frame, 0))
from_bytes(frame) == IF frame.kind = "reject" THEN Err(0) ELSE Ok(frame.message)

FeedReplies ==
    { Frame(Reply("ShortAirAirSurveillance", IcaoA, 1)),
      Frame(Reply("SurveillanceAltitudeReply", IcaoA, 2)),
      Frame(Reply("SurveillanceIdentityReply", IcaoA, 3)),
      Frame(Reply("AllCallReply", IcaoB, 1)),
      Frame(Reply("LongAirAirSurveillance", IcaoB, 1)) }
FeedFaulty ==
    { Frame(Unhandled), NonHexFrame, RejectedFrame,
      Frame(Reply("AllCallReply", IcaoB, 1)) }
FeedCommBAltitude ==
    { Frame(CommB("CommBAltitudeReply", IcaoA, 1, None, None)),
      Frame(CommB("CommBAltitudeReply", IcaoA, 2, Some(BDS50(1)), None)),
      Frame(CommB("CommBAltitudeReply", IcaoA, 3, Some(BDS50(1)), Some(BDS60(1)))) }
FeedCommB ==
    { Frame(CommB("CommBIdentityReply", IcaoA, 1, Some(BDS50(1)), None)),
      Frame(CommB("CommBIdentityReply", IcaoA, 2, None, Some(BDS60(1)))),
      Frame(CommB("CommBIdentityReply", IcaoA, 3, Some(BDS50(5)), Some(BDS60(5)))),
      Frame(CommB("CommBIdentityReply", IcaoB, 4, None, None)) }
FeedADSB ==
    { Frame(ADSB(IcaoA, BDS05(0, 1))),
      Frame(ADSB(IcaoA, BDS05(1, 2))),
      Frame(ADSB(IcaoB, BDS06(0, 3))),
      Frame(ADSB(IcaoA, BDS08("EIN05BT"))),
      Frame(ADSB(IcaoA, BDS09(1))),
      Frame(ADSB(IcaoB, OtherME)) }
FeedTisB ==
    { Frame(TisB(0, IcaoA, BDS05(0, 1))),
      Frame(ADSB(IcaoA, BDS05(0, 500))),
      Frame(TisB(0, IcaoB, BDS06(1, 3))),
      Frame(TisB(0, IcaoB, BDS08("EIN05BT"))),
      Frame(TisB(0, IcaoB, BDS09Air(1))),
      Frame(ADSB(IcaoA, BDS05(1, 4))) }
\* timestamps of the frames, in half seconds
Timestamps == 1..MaxTs

\* the runs considered: what ingress delivers, options.output, options.latlon
RefPos == [lat |-> 1, lon |-> 10]
Runs ==
    { [feed |-> FeedReplies, file |-> "open", reference |-> None],
      [feed |-> FeedFaulty, file |-> "none", reference |-> None],
      [feed |-> FeedCommBAltitude, file |-> "none", reference |-> None],
      [feed |-> FeedCommB, file |-> "none", reference |-> None],
      [feed |-> FeedADSB, file |-> "none", reference |-> None],
      [feed |-> FeedTisB, file |-> "open", reference |-> Some(RefPos)] }

\* `timestamp as u32': truncation toward zero, saturating at the u32 range
\* (timestamps are counted in half seconds; the upper saturation bound
\* 2^32 - 1 lies beyond every timestamp considered)
AsU32(ts) == IF ts < 0 THEN 0 ELSE ts \div 2

(***************************************************************************)
(* Position reconstructor (rs1090::decode::cpr::decode_position).  The CPR *)
(* arithmetic is abstracted: a frame's cpr_lat/cpr_lon stand for the       *)
(* position it decodes to, and distances are differences of latitudes.     *)
(***************************************************************************)
NewScratch == [even |-> None, odd |-> None, last_position |-> None]
Abs(x) == IF x < 0 THEN -x ELSE x

decode_position(me, ts, icao, scratch_map, ref) ==
    IF me.bds \notin {"BDS05", "BDS06"}
    THEN [me |-> me, aircraft |-> scratch_map, reference |-> ref]
    ELSE
    LET old == IF icao \in DOMAIN scratch_map THEN scratch_map[icao] ELSE NewScratch
        slot == IF me.odd = 1 THEN old.odd ELSE old.even
        backwards == IsSome(slot) /\ ts < Unwrap(slot).t
        entry == IF backwards THEN None
                 ELSE Some([cpr_lat |-> me.cpr_lat, cpr_lon |-> me.cpr_lon, t |-> ts])
        stored == IF me.odd = 1 THEN [old EXCEPT !.odd = entry]
                  ELSE [old EXCEPT !.even = entry]
        global == /\ IsSome(stored.even) /\ IsSome(stored.odd)
                  /\ Abs(Unwrap(stored.even).t - Unwrap(stored.odd).t) <= 20
        range == IF me.bds = "BDS05" THEN 180 ELSE 45
        local == /\ IsSome(ref)
                 /\ Abs(me.cpr_lat - Unwrap(ref).lat) <= range
        pos == [lat |-> me.cpr_lat, lon |-> me.cpr_lon]
        put(sc) == [k \in DOMAIN scratch_map \cup {icao} |->
                       IF k = icao THEN sc ELSE scratch_map[k]]
    IN  IF backwards
        THEN [me |-> me, aircraft |-> put(stored), reference |-> ref]
        ELSE IF global \/ local
        THEN [me |-> [me EXCEPT !.latitude = Some(pos.lat),
                                !.longitude = Some(pos.lon)],
              aircraft |-> put([stored EXCEPT !.last_position = Some(pos)]),
              reference |-> Some(pos)]
        ELSE IF IsSome(ref)
        THEN \* out of range: the slot just written is invalidated
             [me |-> me,
              aircraft |-> put(IF me.odd = 1 THEN [stored EXCEPT !.odd = None]
                               ELSE [stored EXCEPT !.even = None]),
              reference |-> ref]
        ELSE [me |-> me, aircraft |-> put(stored), reference |-> ref]

(***************************************************************************)
(* State aggregator (jet.rs)                                               *)
(***************************************************************************)
EmptyMap == [k \in {} |-> 0]

\* StateVectors::new(ts).cur
StateVectors_new(ts) ==
    [first |-> ts, last |-> ts, callsign |-> None, squawk |-> None,
     latitude |-> None, longitude |-> None, altitude |-> None,
     groundspeed |-> None, vertical_rate |-> None, track |-> None,
     ias |-> None, mach |-> None, roll |-> None]

WithAddress == {"ShortAirAirSurveillance", "SurveillanceAltitudeReply",
                "SurveillanceIdentityReply", "AllCallReply",
                "LongAirAirSurveillance", "ExtendedSquitterADSB",
                "ExtendedSquitterTisB", "CommBAltitudeReply",
                "CommBIdentityReply"}

icao24(message) ==
    IF message.df \in WithAddress THEN Some(IcaoToString(message.addr))
    ELSE None

\* variant: the entry is put into a map that holds nothing else
entry_or_insert_alone(map, k, ts) ==
    [j \in {k} |->
        IF j \in DOMAIN map THEN map[j] ELSE StateVectors_new(ts)]

\* variant: insert() in place of or_insert(): an existing entry is replaced
entry_or_insert_overwrite(map, k, ts) ==
    [j \in DOMAIN map \cup {k} |->
        IF j = k THEN StateVectors_new(ts) ELSE map[j]]

\* states.entry(icao24).or_insert(StateVectors::new(ts))
entry_or_insert(map, k, ts) ==
    [j \in DOMAIN map \cup {k} |->
        IF j \in DOMAIN map THEN map[j] ELSE StateVectors_new(ts)]

\* variant: both timestamps are set
set_last_and_first(cur, ts) == [cur EXCEPT !.last = ts, !.first = ts]

\* aircraft.cur.last = *timestamp as u32
set_last(cur, ts) == [cur EXCEPT !.last = ts]

\* variant: only the BDS50 candidate is reset
invalidate_bds50_only(bds) ==
    IF IsSome(bds.bds50) /\ IsSome(bds.bds60)
    THEN [bds EXCEPT !.bds50 = None] ELSE bds

\* "Invalidate data if marked as both BDS50 and BDS60"
invalidate(bds) ==
    IF IsSome(bds.bds50) /\ IsSome(bds.bds60) THEN NoBds ELSE bds

write_position(cur, me) ==
    IF me.bds = "BDS05"
    THEN [cur EXCEPT !.latitude = me.latitude, !.longitude = me.longitude,
                     !.altitude = me.alt]
    ELSE IF me.bds = "BDS06"
    THEN [cur EXCEPT !.latitude = me.latitude, !.longitude = me.longitude,
                     !.track = me.track, !.groundspeed = me.groundspeed]
    ELSE IF me.bds = "BDS08"
    THEN [cur EXCEPT !.callsign = Some(me.callsign)]
    ELSE cur

\* the match on message.df of update_snapshot: the snapshot and the message
\* as they are after it
match_df(cur, message) ==
    LET df == message.df IN
    IF df = "SurveillanceIdentityReply"
    THEN [cur |-> [cur EXCEPT !.squawk = Some(message.id)], message |-> message]
    ELSE IF df = "SurveillanceAltitudeReply"
    THEN [cur |-> [cur EXCEPT !.altitude = Some(message.ac)], message |-> message]
    ELSE IF df = "ExtendedSquitterADSB"
    THEN [cur |-> IF message.me.bds = "BDS09"
                  THEN [cur EXCEPT !.vertical_rate = message.me.vertical_rate]
                  ELSE write_position(cur, message.me),
          message |-> message]
    ELSE IF df = "ExtendedSquitterTisB"
    THEN [cur |-> write_position(cur, message.me), message |-> message]
    ELSE IF df = "CommBAltitudeReply"
    THEN [cur |-> cur, message |-> [message EXCEPT !.bds = invalidate(@)]]
    ELSE IF df = "CommBIdentityReply"
    THEN LET bds == invalidate(message.bds)
             c1 == IF IsSome(bds.bds50)
                   THEN [cur EXCEPT !.roll = Unwrap(bds.bds50).roll_angle,
                                    !.track = Unwrap(bds.bds50).track_angle,
                                    !.groundspeed = Unwrap(bds.bds50).groundspeed]
                   ELSE cur
             c2 == IF IsSome(bds.bds60)
                   THEN [c1 EXCEPT !.ias = Unwrap(bds.bds60).indicated_airspeed,
                                   !.mach = Unwrap(bds.bds60).mach_number]
                   ELSE c1
         IN [cur |-> c2, message |-> [message EXCEPT !.bds = bds]]
    ELSE [cur |-> cur, message |-> message]

\* one table row of build_table
Row(icao, sv) ==
    <<icao, sv.callsign, sv.latitude, sv.longitude, sv.altitude,
      sv.first, sv.last>>
RowsOf(map) == [k \in DOMAIN map |-> Row(k, map[k])]

(***************************************************************************)
(* The process: ingress, the writer loop of main, the renderer thread      *)
(***************************************************************************)
\* main has neither returned nor panicked: the process is running
Alive == pcw \notin {"done", "failed", "panicked"}
CrcIdle ==
    /\ cMessage = <<>>
    /\ cBits = 0
    /\ cFlip = 0
    /\ cResult = NoResult
    /\ cOverlay = None
    /\ cPlain = NoResult
Init ==
    /\ \E r \in Runs :
          /\ feed = r.feed
          /\ file = r.file
          /\ reference = r.reference
    /\ chan = <<>>
    /\ closed = FALSE
    /\ sent = 0
    /\ pcw = "recv"
    /\ msg = None
    /\ aircraft = EmptyMap
    /\ states = EmptyMap
    /\ mutex = "free"
    /\ json = None
    /\ pcr = "draw"
    /\ rows = None
    /\ committed = EmptyMap
    /\ seen = {}
    /\ log = <<>>
    /\ CrcIdle

\* ---- environment ----
\* the ingress collaborator delivers a timed frame
Send(ts, f) ==
    /\ Alive /\ ~closed
    /\ sent < MaxFrames
    /\ Len(chan) < MaxChan
    /\ chan' = Append(chan, [timestamp |-> ts, frame |-> f])
    /\ sent' = sent + 1
    /\ log' = Append(log, [timestamp |-> ts, frame |-> f])
    /\ UNCHANGED <<feed, closed, file, pcw, msg, aircraft, reference,
                   states, mutex, json, pcr, rows, committed, seen>>
    /\ UNCHANGED crcVars

\* the ingress collaborator drops its sender
CloseIngress ==
    /\ Alive /\ ~closed
    /\ closed' = TRUE
    /\ UNCHANGED <<feed, chan, sent, file, pcw, msg, aircraft, reference,
                   states, mutex, json, pcr, rows, committed, seen, log>>
    /\ UNCHANGED crcVars

\* ---- writer: the while loop of main ----
\* variant: the writer takes the next frame before the JSON line of the
\* frame in work is written
RecvEarly ==
    /\ pcw \in {"recv", "emit"}
    /\ chan # <<>>
    /\ msg' = Some([timestamp |-> Head(chan).timestamp,
                    frame |-> Head(chan).frame, message |-> None])
    /\ chan' = Tail(chan)
    /\ pcw' = "decode"
    /\ UNCHANGED <<feed, closed, sent, file, aircraft, reference,
                   states, mutex, json, pcr, rows, committed, seen, log>>
    /\ UNCHANGED crcVars

\* rx.recv().await yields Some(tmsg)
Recv ==
    /\ pcw = "recv"
    /\ chan # <<>>
    /\ msg' = Some([timestamp |-> Head(chan).timestamp,
                    frame |-> Head(chan).frame, message |-> None])
    /\ chan' = Tail(chan)
    /\ pcw' = "decode"
    /\ UNCHANGED <<feed, closed, sent, file, aircraft, reference,
                   states, mutex, json, pcr, rows, committed, seen, log>>
    /\ UNCHANGED crcVars

\* rx.recv().await yields None: the loop ends and main returns Ok(())
RecvNone ==
    /\ pcw = "recv"
    /\ chan = <<>> /\ closed
    /\ pcw' = "done"
    /\ UNCHANGED <<feed, chan, closed, sent, file, msg, aircraft,
                   reference, states, mutex, json, pcr, rows, committed, seen, log>>
    /\ UNCHANGED crcVars

\* hex::decode(..).unwrap(), Message::from_bytes, decode_position
Decode ==
    /\ pcw = "decode"
    /\ LET tmsg == Unwrap(msg)
           bytes == hex_decode(tmsg.frame)
           parsed == from_bytes(tmsg.frame)
           m == parsed.val
           pos == IF m.df = "ExtendedSquitterADSB"
                  THEN decode_position(m.me, tmsg.timestamp, m.addr,
                                       aircraft, reference)
                  ELSE IF m.df = "ExtendedSquitterTisB"
                  THEN decode_position(m.me, tmsg.timestamp, m.aa,
                                       aircraft, reference)
                  ELSE [me |-> m.me, aircraft |-> aircraft,
                        reference |-> reference]
       IN IF bytes.tag = "Err"
          THEN /\ pcw' = "panicked"
               /\ UNCHANGED <<msg, aircraft, reference>>
          ELSE IF parsed.tag = "Err"
          THEN /\ pcw' = "recv"
               /\ msg' = None
               /\ UNCHANGED <<aircraft, reference>>
          ELSE /\ pcw' = "update"
               /\ msg' = Some([tmsg EXCEPT
                               !.message = Some([m EXCEPT !.me = pos.me])])
               /\ aircraft' = pos.aircraft
               /\ reference' = pos.reference
    /\ UNCHANGED <<feed, chan, closed, sent, file, states, mutex, json,
                   pcr, rows, committed, seen, log>>
    /\ UNCHANGED crcVars

Key == Unwrap(icao24(Unwrap(Unwrap(msg).message)))

\* update_snapshot for a message without address: nothing happens
UpdateSkip ==
    /\ pcw = "update"
    /\ icao24(Unwrap(Unwrap(msg).message)) = None
    /\ pcw' = "emit"
    /\ UNCHANGED <<feed, chan, closed, sent, file, msg, aircraft,
                   reference, states, mutex, json, pcr, rows, committed, seen, log>>
    /\ UNCHANGED crcVars

\* variant: the update starts without the mutex being taken
UpdateLockNotTaken ==
    /\ pcw = "update"
    /\ icao24(Unwrap(Unwrap(msg).message)) # None
    /\ pcw' = "entry"
    /\ UNCHANGED <<feed, chan, closed, sent, file, msg, aircraft,
                   reference, states, mutex, json, pcr, rows, committed, seen, log>>
    /\ UNCHANGED crcVars

\* let mut states = states.lock().unwrap()
UpdateLock ==
    /\ pcw = "update"
    /\ icao24(Unwrap(Unwrap(msg).message)) # None
    /\ mutex = "free"
    /\ mutex' = "writer"
    /\ pcw' = "entry"
    /\ UNCHANGED <<feed, chan, closed, sent, file, msg, aircraft,
                   reference, states, json, pcr, rows, committed, seen, log>>
    /\ UNCHANGED crcVars

UpdateEntry ==
    /\ pcw = "entry"
    /\ states' = entry_or_insert(states, Key, AsU32(Unwrap(msg).timestamp))
    /\ pcw' = "last"
    /\ UNCHANGED <<feed, chan, closed, sent, file, msg, aircraft,
                   reference, mutex, json, pcr, rows, committed, seen, log>>
    /\ UNCHANGED crcVars

UpdateLast ==
    /\ pcw = "last"
    /\ states' = [states EXCEPT
                  ![Key] = set_last(@, AsU32(Unwrap(msg).timestamp))]
    /\ pcw' = "match"
    /\ UNCHANGED <<feed, chan, closed, sent, file, msg, aircraft,
                   reference, mutex, json, pcr, rows, committed, seen, log>>
    /\ UNCHANGED crcVars

UpdateMatch ==
    /\ pcw = "match"
    /\ LET r == match_df(states[Key], Unwrap(Unwrap(msg).message))
       IN /\ states' = [states EXCEPT ![Key] = r.cur]
          /\ msg' = Some([Unwrap(msg) EXCEPT !.message = Some(r.message)])
    /\ pcw' = "unlock"
    /\ UNCHANGED <<feed, chan, closed, sent, file, aircraft, reference,
                   mutex, json, pcr, rows, committed, seen, log>>
    /\ UNCHANGED crcVars

\* the guard goes out of scope
UpdateUnlock ==
    /\ pcw = "unlock"
    /\ mutex' = "free"
    /\ committed' = states
    /\ seen' = seen \cup {Key}
    /\ pcw' = "emit"
    /\ UNCHANGED <<feed, chan, closed, sent, file, msg, aircraft,
                   reference, states, json, pcr, rows, log>>
    /\ UNCHANGED crcVars

\* serde_json::to_string, println!, file.write_all(..).await?
Emit ==
    /\ pcw = "emit"
    /\ json' = Unwrap(msg).message
    /\ msg' = None
    /\ \/ pcw' = "recv"
       \/ file = "open" /\ pcw' = "failed"
    /\ UNCHANGED <<feed, chan, closed, sent, file, aircraft, reference,
                   states, mutex, pcr, rows, committed, seen, log>>
    /\ UNCHANGED crcVars

\* ---- renderer thread ----
\* build_table: states_tui.lock().unwrap()
RenderLock ==
    /\ Alive /\ pcr = "draw"
    /\ mutex = "free"
    /\ mutex' = "renderer"
    /\ pcr' = "collect"
    /\ UNCHANGED <<feed, chan, closed, sent, file, pcw, msg, aircraft,
                   reference, states, json, rows, committed, seen, log>>
    /\ UNCHANGED crcVars

\* .iter().map(..).collect(); the guard is dropped with the statement
RenderCollect ==
    /\ Alive /\ pcr = "collect"
    /\ rows' = Some(RowsOf(states))
    /\ mutex' = "free"
    /\ pcr' = "render"
    /\ UNCHANGED <<feed, chan, closed, sent, file, pcw, msg, aircraft,
                   reference, states, json, committed, seen, log>>
    /\ UNCHANGED crcVars

\* frame.render_widget(table, ..)
RenderTable ==
    /\ Alive /\ pcr = "render"
    /\ rows' = None
    /\ pcr' = "events"
    /\ UNCHANGED <<feed, chan, closed, sent, file, pcw, msg, aircraft,
                   reference, states, mutex, json, committed, seen, log>>
    /\ UNCHANGED crcVars

\* handle_events on what event::poll/read deliver within 500 ms: no event,
\* a press of 'q', or any other event; true on a press of 'q'
Events == {"none", "q", "other"}
handle_events(ev) == ev = "q"
HandleEvents(ev) ==
    /\ Alive /\ pcr = "events"
    /\ pcr' = IF handle_events(ev) THEN "restore" ELSE "draw"
    /\ UNCHANGED <<feed, chan, closed, sent, file, pcw, msg, aircraft,
                   reference, states, mutex, json, rows, committed, seen, log>>
    /\ UNCHANGED crcVars

\* disable_raw_mode, LeaveAlternateScreen; the thread ends
Restore ==
    /\ Alive /\ pcr = "restore"
    /\ pcr' = "done"
    /\ UNCHANGED <<feed, chan, closed, sent, file, pcw, msg, aircraft,
                   reference, states, mutex, json, rows, committed, seen, log>>
    /\ UNCHANGED crcVars

Writer ==
    \/ Recv \/ RecvNone \/ Decode \/ UpdateSkip \/ UpdateLock \/ UpdateEntry
    \/ UpdateLast \/ UpdateMatch \/ UpdateUnlock \/ Emit
Renderer ==
    \/ RenderLock \/ RenderCollect \/ RenderTable
    \/ \E ev \in Events : HandleEvents(ev)
    \/ Restore

Next ==
    \/ \E ts \in Timestamps, f \in feed : Send(ts, f)
    \/ CloseIngress
    \/ Recv \/ RecvNone \/ Decode \/ UpdateSkip \/ UpdateLock \/ UpdateEntry
    \/ UpdateLast \/ UpdateMatch \/ UpdateUnlock \/ Emit
    \/ RenderLock \/ RenderCollect \/ RenderTable
    \/ \E ev \in Events : HandleEvents(ev)
    \/ Restore

Spec == Init /\ [][Next]_vars

\* the writer task and the renderer thread are both scheduled; a thread
\* waiting for the mutex gets it; ingress and the operator owe nothing
FairSpec ==
    /\ Spec
    /\ WF_vars(Writer) /\ SF_vars(UpdateLock)
    /\ WF_vars(Renderer) /\ SF_vars(RenderLock)

(***************************************************************************)
(* The CRC engine on its own: modes_checksum applied to the frames of      *)
(* test_crc, to the first of them with one bit flipped, and to short       *)
(* slices with arbitrary bit lengths.                                      *)
(***************************************************************************)
PipeIdle ==
    /\ feed = {} /\ chan = <<>> /\ closed = FALSE /\ sent = 0
    /\ file = "none" /\ pcw = "recv" /\ msg = None /\ aircraft = EmptyMap
    /\ reference = None /\ states = EmptyMap /\ mutex = "free"
    /\ json = None /\ pcr = "draw" /\ rows = None /\ committed = EmptyMap
    /\ seen = {} /\ log = <<>>

ByteSample == {0, 141, 255}
RECURSIVE Slices(_)
Slices(len) ==
    IF len = 0 THEN {<<>>}
    ELSE Slices(len - 1)
         \cup {Append(m, b) : m \in {x \in Slices(len - 1) : Len(x) = len - 1},
                              b \in ByteSample}

FixtureFrame(k) == FromHex(Fixtures[k].hex)
\* the frame of test_crc line 82
ValidFrame == FixtureFrame(1)

\* flip bit i (1 is the most significant bit of byte 0)
FlipBit(frame, i) ==
    [frame EXCEPT ![((i - 1) \div 8) + 1] =
        Xor(@, 2 ^ (7 - ((i - 1) % 8)))]

CrcInit ==
    /\ PipeIdle
    /\ cFlip = 0
    /\ cResult = NoResult
    /\ cOverlay = None
    /\ cPlain = NoResult
    /\ \/ \E k \in 1..Len(Fixtures) : cMessage = FixtureFrame(k) /\ cBits = 112
       \/ cMessage \in Slices(MaxCrcLen) /\ cBits \in 0..MaxCrcBits
       \/ \E b \in 0..255 : cMessage = <<b, 0, 0, 0>> /\ cBits = 32

\* alter one bit of the valid frame before it is checked
Flip(i) ==
    /\ cResult = NoResult /\ cFlip = 0 /\ cOverlay = None
    /\ cMessage = ValidFrame /\ cBits = 112
    /\ cMessage' = FlipBit(cMessage, i)
    /\ cFlip' = i
    /\ UNCHANGED <<cBits, cResult, cOverlay, cPlain>>
    /\ UNCHANGED pipeVars

Checksum ==
    /\ cResult = NoResult
    /\ cResult' = modes_checksum(cMessage, cBits)
    /\ UNCHANGED <<cMessage, cBits, cFlip, cOverlay, cPlain>>
    /\ UNCHANGED pipeVars

\* a ^ b on the last three bytes of a frame, a taken as a big-endian word
XorTail(frame, a) ==
    LET n == Len(frame) IN
    [frame EXCEPT ![n - 2] = Xor(@, a \div 65536),
                  ![n - 1] = Xor(@, (a \div 256) % 256),
                  ![n] = Xor(@, a % 256)]
\* 24-bit values overlaid on the parity field
Addresses == Icaos \cup {0, 1, 16777215}

\* a checked frame of n >= 3 bytes gets an address XORed into its last
\* three bytes and is to be checked again
Overlay(a) ==
    /\ cResult.tag = "Ok" /\ cOverlay = None /\ cFlip = 0
    /\ Len(cMessage) >= 3 /\ cBits = 8 * Len(cMessage)
    /\ cMessage' = XorTail(cMessage, a)
    /\ cOverlay' = Some(a)
    /\ cPlain' = cResult
    /\ cResult' = NoResult
    /\ UNCHANGED <<cBits, cFlip>>
    /\ UNCHANGED pipeVars

CrcNext ==
    \/ \E i \in 1..112 : Flip(i)
    \/ \E a \in Addresses : Overlay(a)
    \/ Checksum

CrcSpec == CrcInit /\ [][CrcNext]_vars

(***************************************************************************)
(* Properties                                                              *)
(***************************************************************************)

\* C6: modes_checksum(frame, 112) of every frame of test_crc is Ok with the
\* value the test asserts: 0 for the seven valid DF 17 frames, the asserted
\* nonzero syndrome for the six frames with overlaid or inconsistent parity.
CrcFixturesAsAsserted ==
    \A k \in 1..Len(Fixtures) :
        (cResult # NoResult /\ cFlip = 0 /\ cBits = 112
            /\ cMessage = FixtureFrame(k))
        => /\ cResult = Ok(Fixtures[k].crc)
           /\ (k <= 7 => cResult.val = 0)
           /\ (k > 7 => cResult.val # 0)
\* the checksum of the DF 20 frame of test_crc line 104 has been computed
CrcFixtureChecked ==
    /\ cMessage = FixtureFrame(8) /\ cBits = 112
    /\ cResult.tag = "Ok" /\ cResult.val = 10719924

\* C7: with any single one of its 112 bits flipped, the valid frame
\* 8D406B902015A678D4D220AA4BDA has a nonzero checksum.
CrcFlipNonzero ==
    (cFlip # 0 /\ cResult # NoResult)
    => (cResult.tag = "Ok" /\ cResult.val # 0)
\* the frame with its last bit flipped has been checked
CrcFlipChecked ==
    /\ cFlip = 112 /\ cMessage = FlipBit(ValidFrame, 112)
    /\ cResult.tag = "Ok"

\* C8: modes_checksum fails exactly when bit_length < 24 or the slice is
\* shorter than bit_length/8 bytes; otherwise it returns Ok and reads no
\* byte outside the slice.
CrcErrorExactlyWhenShort ==
    cResult # NoResult
    => /\ (cResult.tag = "Err") <=> (cBits < 24 \/ Len(cMessage) < cBits \div 8)
       /\ (cBits >= 24 /\ Len(cMessage) >= cBits \div 8) => cResult.tag = "Ok"
       /\ cResult.tag # "Panic"
\* a slice one byte too short for a bit length of at least 24 was refused
CrcShortRefused ==
    /\ cBits >= 24 /\ Len(cMessage) = (cBits \div 8) - 1
    /\ cResult.tag = "Err"

\* ---- the aggregator ----
InUpdate == {"entry", "last", "match", "unlock"}
\* the message as the frame parser delivered it
Parsed == from_bytes(Unwrap(msg).frame).val
\* the snapshot the current update started from
Before ==
    IF Key \in DOMAIN committed THEN committed[Key] ELSE StateVectors_new(0)

\* C1: last never decreases for any key, whatever the order of the
\* timestamps.
LastTsNeverDecreases ==
    [][\A k \in DOMAIN states :
          k \in DOMAIN states' => states'[k].last >= states[k].last]_vars

\* C2: whenever no update is in progress, every snapshot has first <= last.
FirstLeLast ==
    pcw \notin InUpdate => \A k \in DOMAIN states : states[k].first <= states[k].last

AmbiguousCommB(m) ==
    /\ m.df \in {"CommBAltitudeReply", "CommBIdentityReply"}
    /\ IsSome(m.bds.bds50) /\ IsSome(m.bds.bds60)
AmbiguityWritesNothing ==
    (pcw = "unlock" /\ AmbiguousCommB(Parsed))
    => /\ Unwrap(Unwrap(msg).message).bds = NoBds
       /\ \A f \in {"roll", "track", "groundspeed", "ias", "mach"} :
             states[Key][f] = Before[f]
\* an ambiguous DF 21 message was applied to a snapshot whose roll is known
AmbiguityOnKnownRoll ==
    /\ pcw = "unlock" /\ AmbiguousCommB(Parsed)
    /\ Parsed.df = "CommBIdentityReply"
    /\ Key \in DOMAIN committed /\ IsSome(committed[Key].roll)

\* C5: the writer holds the mutex throughout an update, and whatever
\* build_table collects is the map as it stood between two updates.
ReadersSeeWholeUpdates ==
    [][/\ pcw \in InUpdate => mutex = "writer"
       /\ (pcr = "collect" /\ pcr' = "render")
            => rows' = Some(RowsOf(committed))]_vars
\* the renderer holds the mutex while the writer waits to apply a message
\* to a map that already has snapshots
WriterWaitsForReader ==
    /\ pcr = "collect" /\ mutex = "renderer"
    /\ pcw = "update" /\ icao24(Unwrap(Unwrap(msg).message)) # None
    /\ states # EmptyMap

\* ---- the writer loop ----
\* C9: once the renderer has seen 'q' or ingress has closed, the writer
\* eventually ends, the mutex released and no message in work.
ShutdownSignal == pcr \in {"restore", "done"} \/ closed
WriterEnded == pcw \in {"done", "failed", "panicked"} /\ mutex # "writer"
ShutdownEndsWriter == ShutdownSignal ~> WriterEnded

\* C10: a frame that is not hex text or that the parser rejects is dropped
\* with the map and the CPR scratch unchanged, and the writer goes on to
\* the next frame.
Malformed(frame) ==
    hex_decode(frame).tag = "Err" \/ from_bytes(frame).tag = "Err"
MalformedFrameDropped ==
    [][(pcw = "decode" /\ pcw' # "decode" /\ Malformed(Unwrap(msg).frame))
        => (pcw' = "recv" /\ msg' = None /\ states' = states
            /\ aircraft' = aircraft)]_vars

\* C11: an I/O error on the dump file does not end the writer: after the
\* JSON step of any frame the writer is back at rx.recv().
DumpErrorKeepsWriter ==
    [][(pcw = "emit" /\ pcw' # "emit" /\ file = "open") => pcw' = "recv"]_vars

\* the optional fields of a snapshot
Optional == {"callsign", "squawk", "latitude", "longitude", "altitude",
             "groundspeed", "vertical_rate", "track", "ias", "mach", "roll"}
\* the fields the update rule of a message may write
RuleFields(m) ==
    IF m.df = "SurveillanceIdentityReply" THEN {"squawk"}
    ELSE IF m.df = "SurveillanceAltitudeReply" THEN {"altitude"}
    ELSE IF m.df \in {"ExtendedSquitterADSB", "ExtendedSquitterTisB"}
    THEN IF m.me.bds = "BDS05" THEN {"latitude", "longitude", "altitude"}
         ELSE IF m.me.bds = "BDS06"
         THEN {"latitude", "longitude", "track", "groundspeed"}
         ELSE IF m.me.bds = "BDS08" THEN {"callsign"}
         ELSE IF m.me.bds = "BDS09"
         THEN {"vertical_rate", "groundspeed", "track", "ias", "mach"}
         ELSE {}
    ELSE IF m.df \in {"CommBAltitudeReply", "CommBIdentityReply"}
    THEN (IF m.df = "CommBAltitudeReply" THEN {"altitude"} ELSE {})
         \cup (IF IsSome(m.bds.bds50) /\ ~IsSome(m.bds.bds60)
               THEN {"roll", "track", "groundspeed"} ELSE {})
         \cup (IF IsSome(m.bds.bds60) /\ ~IsSome(m.bds.bds50)
               THEN {"ias", "mach"} ELSE {})
    ELSE {}
\* the message timestamp as the snapshot stores it
MsgTs == AsU32(Unwrap(msg).timestamp)

\* C12: a message for a key not yet in the map leaves a snapshot with
\* first = last = msg_ts and with every optional field unset that the
\* message's own update rule does not write; for a key already in the map
\* first is left as it was.
CreationFresh ==
    pcw = "unlock"
    => /\ Key \notin DOMAIN committed
            => /\ states[Key].first = MsgTs
               /\ states[Key].last = MsgTs
               /\ \A f \in Optional \ RuleFields(Parsed) :
                     states[Key][f] = None
       /\ Key \in DOMAIN committed
            => states[Key].first = committed[Key].first
\* a snapshot was created by a message that also wrote its altitude
CreatedWithAltitude ==
    /\ pcw = "unlock" /\ Key \notin DOMAIN committed
    /\ IsSome(states[Key].altitude)

\* the message in work, as it is now
Message == Unwrap(Unwrap(msg).message)

\* C13: after a DF 4 or a DF 20 message the snapshot's altitude is the
\* altitude of the message's AC13 field.
AltitudeFromAC13 ==
    (pcw = "unlock"
        /\ Message.df \in {"SurveillanceAltitudeReply", "CommBAltitudeReply"})
    => states[Key].altitude = Some(Message.ac)

\* C14: after a DF 20 or DF 21 message with only a BDS50 candidate the
\* snapshot has its roll, track and groundspeed; with only a BDS60
\* candidate, its ias and mach.
CommBFormats == {"CommBAltitudeReply", "CommBIdentityReply"}
UniqueCommBWritten ==
    (pcw = "unlock" /\ Parsed.df \in CommBFormats)
    => /\ (IsSome(Parsed.bds.bds50) /\ ~IsSome(Parsed.bds.bds60))
            => /\ states[Key].roll = Unwrap(Parsed.bds.bds50).roll_angle
               /\ states[Key].track = Unwrap(Parsed.bds.bds50).track_angle
               /\ states[Key].groundspeed = Unwrap(Parsed.bds.bds50).groundspeed
       /\ (IsSome(Parsed.bds.bds60) /\ ~IsSome(Parsed.bds.bds50))
            => /\ states[Key].ias = Unwrap(Parsed.bds.bds60).indicated_airspeed
               /\ states[Key].mach = Unwrap(Parsed.bds.bds60).mach_number

\* C15: a DF 17/18 BDS05 message without latitude/longitude leaves the
\* snapshot's latitude and longitude as they were and applies its altitude.
Squitters == {"ExtendedSquitterADSB", "ExtendedSquitterTisB"}
UnsetPositionKeepsKnown ==
    (pcw = "unlock" /\ Message.df \in Squitters /\ Message.me.bds = "BDS05")
    => /\ states[Key].altitude = Message.me.alt
       /\ IF IsSome(Message.me.latitude)
          THEN /\ states[Key].latitude = Message.me.latitude
               /\ states[Key].longitude = Message.me.longitude
          ELSE /\ states[Key].latitude = Before.latitude
               /\ states[Key].longitude = Before.longitude

\* C16: after a DF 17/18 BDS09 message the snapshot has its vertical rate;
\* with subtype 1 or 2 also its groundspeed and track, with subtype 3 or 4
\* also its ias or mach.
VelocityWritten ==
    (pcw = "unlock" /\ Message.df \in Squitters /\ Message.me.bds = "BDS09")
    => /\ states[Key].vertical_rate = Message.me.vertical_rate
       /\ Message.me.subtype \in {1, 2}
            => /\ states[Key].groundspeed = Message.me.groundspeed
               /\ states[Key].track = Message.me.track
       /\ Message.me.subtype \in {3, 4}
            => \/ IsSome(Message.me.ias) /\ states[Key].ias = Message.me.ias
               \/ IsSome(Message.me.mach) /\ states[Key].mach = Message.me.mach

\* C17: a message without payload of interest (DF 0, 11, 16, or a DF 17/18
\* whose ME is none of BDS05/06/08/09) sets last of its snapshot to its
\* timestamp and leaves every other field, and every other snapshot, as it
\* was; a message without address leaves the whole map as it was.
NoPayload(m) ==
    \/ m.df \in {"ShortAirAirSurveillance", "AllCallReply",
                 "LongAirAirSurveillance"}
    \/ /\ m.df \in Squitters
       /\ m.me.bds \notin {"BDS05", "BDS06", "BDS08", "BDS09"}
TableProbe ==
    /\ cBits = 32 /\ Len(cMessage) = 4
    /\ cMessage[2] = 0 /\ cMessage[3] = 0 /\ cMessage[4] = 0

\* C18: for every byte b, CRC_TABLE[b] is b << 16 reduced by the generator
\* 0x1FFF409 over GF(2) (eight shift-and-subtract steps), masked to 24 bits.
TableFromPolynomial ==
    (cResult # NoResult /\ TableProbe)
    => /\ CRC_TABLE[cMessage[1] + 1] = TableEntry(cMessage[1], Generator)
       /\ cResult = Ok(TableEntry(cMessage[1], Generator))
\* the entry of byte 255 was looked up
LastEntryProbed ==
    /\ TableProbe /\ cMessage[1] = 255
    /\ cResult.tag = "Ok" /\ cResult.val = 16385152

\* long division, bit by bit: the k low bits of byte enter a 24-bit
\* register most significant first; the generator is subtracted whenever
\* the bit leaving the register differs from the bit entering
RECURSIVE DivideBits(_, _, _)
DivideBits(reg, byte, k) ==
    IF k = 0 THEN reg
    ELSE IF reg \div 8388608 = (byte \div (2 ^ (k - 1))) % 2
         THEN DivideBits((2 * reg) % 16777216, byte, k - 1)
         ELSE DivideBits(Xor((2 * reg) % 16777216, Generator % 16777216),
                         byte, k - 1)
\* remainder modulo the generator of the first n bytes of the message,
\* as a polynomial over GF(2), times x^24
RECURSIVE Remainder(_, _)
Remainder(message, n) ==
    IF n = 0 THEN 0
    ELSE DivideBits(Remainder(message, n - 1), message[n], 8)
\* the reference checksum of a frame of n >= 3 bytes
Reference(message) ==
    LET n == Len(message) IN
    Xor(Remainder(message, n - 3),
        message[n - 2] * 65536 + message[n - 1] * 256 + message[n])

\* C19: for a frame of n >= 3 bytes, modes_checksum(frame, 8n) is the
\* bitwise remainder of the first n - 3 bytes times x^24 modulo 0x1FFF409,
\* XORed with the last three bytes as a big-endian word, and is below 2^24.
TableDrivenIsBitwise ==
    (cResult # NoResult /\ Len(cMessage) >= 3 /\ cBits = 8 * Len(cMessage))
    => /\ cResult = Ok(Reference(cMessage))
       /\ cResult.val < 16777216
\* the last frame of test_crc (eleven bytes before the parity) was checked
LongFrameChecked ==
    /\ cMessage = FixtureFrame(13) /\ cBits = 112 /\ cFlip = 0
    /\ cResult = Ok(Reference(FixtureFrame(13)))


\* ---- frames are applied in ingress order, one at a time ----
\* the body of the writer loop run to its end on one timed frame:
\* position reconstruction, then update_snapshot, then the JSON line
ApplyFrame(acc, tmsg) ==
    LET parsed == from_bytes(tmsg.frame)
        m == parsed.val
        pos == IF m.df = "ExtendedSquitterADSB"
               THEN decode_position(m.me, tmsg.timestamp, m.addr,
                                    acc.aircraft, acc.reference)
               ELSE IF m.df = "ExtendedSquitterTisB"
               THEN decode_position(m.me, tmsg.timestamp, m.aa,
                                    acc.aircraft, acc.reference)
               ELSE [me |-> m.me, aircraft |-> acc.aircraft,
                     reference |-> acc.reference]
        decoded == [m EXCEPT !.me = pos.me]
        k == icao24(decoded)
        ts == AsU32(tmsg.timestamp)
        entered == entry_or_insert(acc.states, Unwrap(k), ts)
        stamped == [entered EXCEPT ![Unwrap(k)] = set_last(@, ts)]
        r == match_df(stamped[Unwrap(k)], decoded)
    IN  IF hex_decode(tmsg.frame).tag = "Err" \/ parsed.tag = "Err"
        THEN acc
        ELSE IF k = None
        THEN [states |-> acc.states, aircraft |-> pos.aircraft,
              reference |-> pos.reference, json |-> Some(decoded)]
        ELSE [states |-> [stamped EXCEPT ![Unwrap(k)] = r.cur],
              aircraft |-> pos.aircraft,
              reference |-> pos.reference, json |-> Some(r.message)]

\* what main starts from
Start ==
    [states |-> EmptyMap, aircraft |-> EmptyMap,
     reference |-> (CHOOSE r \in Runs : r.feed = feed).reference,
     json |-> None]
\* the sequential fold of the loop body over the first k delivered frames
RECURSIVE Fold(_)
Fold(k) == IF k = 0 THEN Start ELSE ApplyFrame(Fold(k - 1), log[k])

\* number of frames the writer has taken from the channel
Taken == Len(log) - Len(chan)
Current(acc) ==
    /\ aircraft = acc.aircraft /\ reference = acc.reference
    /\ states = acc.states /\ json = acc.json

PlainAddress(m) == IF m.df = "ExtendedSquitterTisB" THEN m.aa ELSE m.addr

\* C21: for every DF 17 and DF 18 message the key of the snapshot being
\* updated is the frame's plaintext ICAO address, the address under which
\* decode_position keeps the aircraft's CPR scratch; a position written by
\* the update lands in the snapshot of that address.
SquitterKeyedByPlainAddress ==
    (pcw \in InUpdate /\ Parsed.df \in Squitters)
    => /\ Key = IcaoToString(PlainAddress(Parsed))
       /\ Parsed.me.bds \in {"BDS05", "BDS06"}
            => PlainAddress(Parsed) \in DOMAIN aircraft
       /\ (pcw = "unlock" /\ IsSome(Message.me.latitude))
            => /\ IcaoToString(PlainAddress(Parsed)) \in DOMAIN states
               /\ states[IcaoToString(PlainAddress(Parsed))].latitude
                      = Message.me.latitude


\* ---- the address overlaid on the parity field ----
\* C22: XORing a 24-bit value a into the last three bytes of a frame of
\* n >= 3 bytes changes modes_checksum(frame, 8n) by exactly XOR a; a frame
\* with consistent parity so overlaid yields a as its checksum.
OverlayShiftsChecksum ==
    (IsSome(cOverlay) /\ cResult # NoResult)
    => /\ cResult = Ok(Xor(cPlain.val, Unwrap(cOverlay)))
       /\ cPlain.val = 0 => cResult.val = Unwrap(cOverlay)
\* a valid frame of test_crc overlaid with an aircraft address gave it back
AddressRecovered ==
    /\ cOverlay = Some(IcaoA) /\ cPlain = Ok(0)
    /\ cMessage = XorTail(ValidFrame, IcaoA)
    /\ cResult = Ok(IcaoA)
====
